---- MODULE Spec2Model ----
(***************************************************************************)
(* Ophthalmologist compensation calculator (src/app.py).                   *)
(*                                                                         *)
(* The Streamlit script is re-executed from top to bottom every time a     *)
(* sidebar widget changes.  The state is what one execution leaves behind: *)
(* the widget values, the result of calculate_compensation at the slider   *)
(* value, the three displayed thresholds, the 100-row comparison sweep and *)
(* the three "current" markers of the chart.                               *)
(*                                                                         *)
(* Numbers.  The program computes with Python numbers; the model computes  *)
(* with exact rationals [n |-> numerator, d |-> denominator > 0] in lowest *)
(* terms, so that equal values are equal records.  Money is counted in     *)
(* thousands of dollars (Money(300000) is 300/1).  Binary floating-point   *)
(* rounding is not modelled.                                               *)
(***************************************************************************)
EXTENDS Integers, Sequences, FiniteSets, TLC

VARIABLES net_collections, params, results, threshold, comparison_data, current_point

vars == <<net_collections, params, results, threshold, comparison_data, current_point>>

(***************************************************************************)
(* Exact rational arithmetic                                               *)
(***************************************************************************)
RECURSIVE GCD(_, _)
GCD(a, b) == IF b = 0 THEN a ELSE GCD(b, a % b)

Abs(x) == IF x < 0 THEN -x ELSE x

\* n/d in lowest terms, d > 0
Frac(n, d) ==
    IF d = 1 THEN [n |-> n, d |-> 1]
    ELSE LET g == GCD(Abs(n), d)
         IN  [n |-> n \div g, d |-> d \div g]

Whole(k) == [n |-> k, d |-> 1]

\* a dollar amount, in thousands of dollars
Money(dollars) == Frac(dollars, 1000)

\* x * y
Mul(x, y) == Frac(x.n * y.n, x.d * y.d)

\* x / y, y > 0
Div(x, y) == Frac(x.n * y.d, x.d * y.n)

\* x + y and x - y over the least common denominator
Add(x, y) ==
    IF x.d = y.d THEN Frac(x.n + y.n, x.d)
    ELSE LET g == GCD(x.d, y.d)
         IN  Frac(x.n * (y.d \div g) + y.n * (x.d \div g), (x.d \div g) * y.d)

Sub(x, y) ==
    IF x.d = y.d THEN Frac(x.n - y.n, x.d)
    ELSE LET g == GCD(x.d, y.d)
         IN  Frac(x.n * (y.d \div g) - y.n * (x.d \div g), (x.d \div g) * y.d)

\* x < y and x <= y, compared over the least common denominator
Lt(x, y) ==
    IF x.d = y.d THEN x.n < y.n
    ELSE LET g == GCD(x.d, y.d)
         IN  x.n * (y.d \div g) < y.n * (x.d \div g)

Le(x, y) ==
    IF x.d = y.d THEN x.n <= y.n
    ELSE LET g == GCD(x.d, y.d)
         IN  x.n * (y.d \div g) <= y.n * (x.d \div g)

\* a variant of Max0 without the clamp at zero
Max0_unclamped(x) == x

\* Python's max(0, x): the first maximal argument
Max0(x) == IF x.n > 0 THEN x ELSE Whole(0)

\* numpy's abs
RAbs(x) == [n |-> Abs(x.n), d |-> x.d]

(***************************************************************************)
(* Variants of calculate_compensation with one slip each, built from its   *)
(* threshold, its excess over the threshold and its bonus rate.            *)
(***************************************************************************)
compensation_with(f1, f2, f3, collections, ThresholdOf(_), ExcessOver(_, _), RateOf(_)) ==
    [i \in 1..3 |->
        LET f == <<f1, f2, f3>>[i]
            bonus == Mul(ExcessOver(collections, ThresholdOf(f)), RateOf(f))
        IN  [base_component |-> f.base_salary,
             bonus_component |-> bonus,
             total |-> Add(f.base_salary, bonus)]]

threshold_of(f) == Mul(f.base_salary, f.multiplier)
excess_over(collections, limit) ==
    IF Lt(limit, collections) THEN Sub(collections, limit) ELSE Whole(0)
rate_of(f) == Div(f.bonus_percentage, Whole(100))

\* the percentage is used as the rate without the division by 100
calculate_compensation_whole_percent(formula1_params, formula2_params, formula3_params, collections) ==
    LET rate(f) == f.bonus_percentage
    IN  compensation_with(formula1_params, formula2_params, formula3_params, collections,
                          threshold_of, excess_over, rate)

\* the operands of the subtraction are swapped
calculate_compensation_swapped(formula1_params, formula2_params, formula3_params, collections) ==
    LET excess(c, limit) == excess_over(limit, c)
    IN  compensation_with(formula1_params, formula2_params, formula3_params, collections,
                          threshold_of, excess, rate_of)

\* the threshold is the base salary, without the multiplier
calculate_compensation_no_multiplier(formula1_params, formula2_params, formula3_params, collections) ==
    LET limit(f) == f.base_salary
    IN  compensation_with(formula1_params, formula2_params, formula3_params, collections,
                          limit, excess_over, rate_of)

\* the multiplier is used where the bonus percentage belongs
calculate_compensation_wrong_rate(formula1_params, formula2_params, formula3_params, collections) ==
    LET rate(f) == Div(f.multiplier, Whole(100))
    IN  compensation_with(formula1_params, formula2_params, formula3_params, collections,
                          threshold_of, excess_over, rate)

\* formula 2 reads the base salary of formula 1
calculate_compensation_shared_base(formula1_params, formula2_params, formula3_params, collections) ==
    compensation_with(formula1_params,
                      [formula2_params EXCEPT !.base_salary = formula1_params.base_salary],
                      formula3_params, collections, threshold_of, excess_over, rate_of)

\* above the threshold the bonus is paid on all collections
calculate_compensation_cliff(formula1_params, formula2_params, formula3_params, collections) ==
    LET excess(c, limit) == IF Lt(limit, c) THEN c ELSE Whole(0)
    IN  compensation_with(formula1_params, formula2_params, formula3_params, collections,
                          threshold_of, excess, rate_of)

(***************************************************************************)
(* calculate_compensation (src/app.py, lines 23-90).  The result is keyed  *)
(* by formula number 1..3 for the source's keys "Formula i: Base + Bonus"; *)
(* the "description" and "details" strings are left out.                   *)
(***************************************************************************)
calculate_compensation(formula1_params, formula2_params, formula3_params, collections) ==
    LET base_salary1 == formula1_params.base_salary
        multiplier1 == formula1_params.multiplier
        bonus_percentage1 == formula1_params.bonus_percentage
        base_salary2 == formula2_params.base_salary
        multiplier2 == formula2_params.multiplier
        bonus_percentage2 == formula2_params.bonus_percentage
        base_salary3 == formula3_params.base_salary
        multiplier3 == formula3_params.multiplier
        bonus_percentage3 == formula3_params.bonus_percentage
        formula1_threshold == Mul(base_salary1, multiplier1)
        formula1_bonus == Mul(Max0(Sub(collections, formula1_threshold)),
                              Div(bonus_percentage1, Whole(100)))
        formula1_total == Add(base_salary1, formula1_bonus)
        formula2_threshold == Mul(base_salary2, multiplier2)
        formula2_bonus == Mul(Max0(Sub(collections, formula2_threshold)),
                              Div(bonus_percentage2, Whole(100)))
        formula2_total == Add(base_salary2, formula2_bonus)
        formula3_threshold == Mul(base_salary3, multiplier3)
        formula3_bonus == Mul(Max0(Sub(collections, formula3_threshold)),
                              Div(bonus_percentage3, Whole(100)))
        formula3_total == Add(base_salary3, formula3_bonus)
    IN  <<[base_component |-> base_salary1,
           bonus_component |-> formula1_bonus,
           total |-> formula1_total],
          [base_component |-> base_salary2,
           bonus_component |-> formula2_bonus,
           total |-> formula2_total],
          [base_component |-> base_salary3,
           bonus_component |-> formula3_bonus,
           total |-> formula3_total]>>

(***************************************************************************)
(* Sidebar widgets (lines 96-190)                                          *)
(***************************************************************************)
\* the slider: min_value, max_value, step, value
slider_min == Money(100000)
slider_max == Money(3000000)
slider_step == Money(50000)
slider_value == Money(1000000)

\* the positions of the slider: min_value + j * step up to max_value
SliderPositions == Sub(slider_max, slider_min).n \div slider_step.n

SliderValues ==
    {Add(slider_min, Mul(Whole(j), slider_step)) : j \in 0..SliderPositions}

\* the values the three number_input widgets of a formula are set to
BaseSalaries == {Money(0), Money(300000)}
Multipliers == {Frac(10, 10), Frac(30, 10)}
BonusPercentages == {Whole(0), Whole(30), Whole(100)}

\* the value= of the three number_input widgets of every formula
default_params ==
    [base_salary |-> Money(300000), multiplier |-> Frac(30, 10),
     bonus_percentage |-> Whole(30)]

\* formulaN_params (lines 193-209)
FormulaParams ==
    [base_salary : BaseSalaries, multiplier : Multipliers,
     bonus_percentage : BonusPercentages]

\* how many number_input widgets are away from their default value at a time
MaxChanged == 1

Changed(p) ==
    Cardinality({<<i, f>> \in (1..3) \X {"base_salary", "multiplier", "bonus_percentage"} :
                    p[i][f] # default_params[f]})

Configurations == {p \in [1..3 -> FormulaParams] : Changed(p) <= MaxChanged}

(***************************************************************************)
(* The sweep (lines 251-261)                                               *)
(***************************************************************************)
linspace_num == 100

\* a sequence given as a function, evaluated element by element once
Tuple(f) == f \o <<>>

\* a function evaluated at every element of its domain once
Table(f) == f @@ <<>>

\* np.linspace(start, stop, num): arange(0, num) * step + start with
\* step = (stop - start) / (num - 1)
linspace(start, stop, num) ==
    LET step == Div(Sub(stop, start), Whole(num - 1))
    IN  Tuple([k \in 1..num |-> Add(Mul(Whole(k - 1), step), start)])

collection_range == linspace(Money(100000), Money(3000000), linspace_num)

\* a variant of sweep whose "Formula 2" column copies the total of Formula 1
sweep_copied_column(formula1_params, formula2_params, formula3_params) ==
    Tuple([k \in 1..Len(collection_range) |->
        LET collection == collection_range[k]
            comp_results == calculate_compensation(formula1_params, formula2_params,
                                                   formula3_params, collection)
        IN  [NetCollections |-> collection,
             Formula1 |-> comp_results[1].total,
             Formula2 |-> comp_results[1].total,
             Formula3 |-> comp_results[3].total]])

\* the loop of lines 254-261: one row per sample, in the order of the samples
sweep(formula1_params, formula2_params, formula3_params) ==
    Tuple([k \in 1..Len(collection_range) |->
        LET collection == collection_range[k]
            comp_results == calculate_compensation(formula1_params, formula2_params,
                                                   formula3_params, collection)
        IN  [NetCollections |-> collection,
             Formula1 |-> comp_results[1].total,
             Formula2 |-> comp_results[2].total,
             Formula3 |-> comp_results[3].total]])

(***************************************************************************)
(* The "current" markers (lines 336-348)                                   *)
(***************************************************************************)
\* np.argmin(a): the index of the first smallest element of a.  The smallest
\* of a[lo..hi] is found in the two halves; on a tie the left one is kept.
RECURSIVE argmin_in(_, _, _)
argmin_in(a, lo, hi) ==
    IF lo = hi THEN lo
    ELSE LET mid == (lo + hi) \div 2
             l == argmin_in(a, lo, mid)
             r == argmin_in(a, mid + 1, hi)
         IN  IF Lt(a[r], a[l]) THEN r ELSE l

\* a variant of argmin that keeps the last smallest element
RECURSIVE argmin_last_in(_, _, _)
argmin_last_in(a, lo, hi) ==
    IF lo = hi THEN lo
    ELSE LET mid == (lo + hi) \div 2
             l == argmin_last_in(a, lo, mid)
             r == argmin_last_in(a, mid + 1, hi)
         IN  IF Le(a[r], a[l]) THEN r ELSE l

argmin_last(a) == argmin_last_in(a, 1, Len(a))

argmin(a) == argmin_in(a, 1, Len(a))

\* np.abs(collection_range - nc)
abs_distance(range, nc) == Tuple([k \in 1..Len(range) |-> RAbs(Sub(range[k], nc))])

Column(row, formula) ==
    CASE formula = 1 -> row.Formula1
      [] formula = 2 -> row.Formula2
      [] formula = 3 -> row.Formula3

\* comparison_df.loc[comparison_df["Net Collections"] == value]: the rows
\* whose sample equals value, in order
rows_at(data, value) == SelectSeq(data, LAMBDA row : row.NetCollections = value)

\* collection_range[np.argmin(np.abs(collection_range - net_collections))]
nearest(nc) == collection_range[argmin(abs_distance(collection_range, nc))]

nearest_of == Table([nc \in SliderValues |-> nearest(nc)])

\* one marker trace per formula: the x and y columns of current_point
markers(data, nc) ==
    [formula \in 1..3 |->
        LET selected == rows_at(data, nearest_of[nc])
        IN  Tuple([k \in 1..Len(selected) |->
                [x |-> selected[k].NetCollections, y |-> Column(selected[k], formula)]])]

(***************************************************************************)
(* One execution of the script (lines 192-348).  The sweep and the argmin  *)
(* are pure functions of the widget values; they are evaluated once per    *)
(* value and looked up at each execution.                                  *)
(***************************************************************************)
comparison_data_of == Table([p \in Configurations |-> sweep(p[1], p[2], p[3])])

\* a variant of thresholds that uses the multiplier of formula 1 throughout
thresholds_first_multiplier(p) ==
    <<Mul(p[1].base_salary, p[1].multiplier),
      Mul(p[2].base_salary, p[1].multiplier),
      Mul(p[3].base_salary, p[1].multiplier)>>

\* threshold1, threshold2, threshold3 (lines 215-217)
thresholds(p) ==
    <<Mul(p[1].base_salary, p[1].multiplier),
      Mul(p[2].base_salary, p[2].multiplier),
      Mul(p[3].base_salary, p[3].multiplier)>>

Run(nc, p) ==
    /\ net_collections' = nc
    /\ params' = p
    /\ results' = calculate_compensation(p[1], p[2], p[3], nc)
    /\ threshold' = thresholds(p)
    /\ comparison_data' = comparison_data_of[p]
    /\ current_point' = markers(comparison_data_of[p], nc)

Init ==
    /\ net_collections = slider_value
    /\ params = [i \in 1..3 |-> default_params]
    /\ results = calculate_compensation(params[1], params[2], params[3], net_collections)
    /\ threshold = thresholds(params)
    /\ comparison_data = comparison_data_of[params]
    /\ current_point = markers(comparison_data, net_collections)

\* the slider is moved to v
SetNetCollections(v) ==
    /\ v # net_collections
    /\ Run(v, params)

\* a number_input of formula i is set to v
SetBaseSalary(i, v) ==
    /\ v # params[i].base_salary
    /\ [params EXCEPT ![i].base_salary = v] \in Configurations
    /\ Run(net_collections, [params EXCEPT ![i].base_salary = v])

SetMultiplier(i, v) ==
    /\ v # params[i].multiplier
    /\ [params EXCEPT ![i].multiplier = v] \in Configurations
    /\ Run(net_collections, [params EXCEPT ![i].multiplier = v])

SetBonusPercentage(i, v) ==
    /\ v # params[i].bonus_percentage
    /\ [params EXCEPT ![i].bonus_percentage = v] \in Configurations
    /\ Run(net_collections, [params EXCEPT ![i].bonus_percentage = v])

Next ==
    \/ \E v \in SliderValues : SetNetCollections(v)
    \/ \E i \in 1..3 : \E v \in BaseSalaries : SetBaseSalary(i, v)
    \/ \E i \in 1..3 : \E v \in Multipliers : SetMultiplier(i, v)
    \/ \E i \in 1..3 : \E v \in BonusPercentages : SetBonusPercentage(i, v)

Spec == Init /\ [][Next]_vars

(***************************************************************************)
(* Properties                                                              *)
(***************************************************************************)
Formulas == 1..3

\* the domain the calculation is documented for
ValidInputs ==
    /\ Le(Whole(0), net_collections)
    /\ \A i \in Formulas :
          /\ Le(Whole(0), params[i].base_salary)
          /\ Le(Whole(1), params[i].multiplier)
          /\ Le(Whole(0), params[i].bonus_percentage)
          /\ Le(params[i].bonus_percentage, Whole(100))

\* max(0, collections - base_salary * multiplier) * bonus_percentage / 100
ReferenceBonus(p, collections) ==
    LET excess == Sub(collections, Mul(p.base_salary, p.multiplier))
        clamped == IF Lt(excess, Whole(0)) THEN Whole(0) ELSE excess
    IN  Div(Mul(clamped, p.bonus_percentage), Whole(100))

\* the samples of the sweep
Samples == 1..Len(comparison_data)

C2_TotalAtLeastBase ==
    ValidInputs =>
        \A i \in Formulas :
            /\ Le(params[i].base_salary, results[i].total)
            /\ Le(Whole(0), results[i].bonus_component)
            /\ \A k \in Samples :
                  Le(params[i].base_salary, Column(comparison_data[k], i))

\* collections lie strictly below a threshold of a formula with a positive rate,
\* where only the clamp keeps the bonus from being negative
C2_Witness ==
    /\ ValidInputs
    /\ \E i \in Formulas :
          /\ Lt(net_collections, Mul(params[i].base_salary, params[i].multiplier))
          /\ Lt(Whole(0), params[i].bonus_percentage)
          /\ results[i].total = params[i].base_salary

\* C4: whenever collections <= base_salary_i * multiplier_i (at the slider value
\* or at a sample of the sweep) the bonus of formula i is 0 and its total is
\* base_salary_i
C4_NoBonusUpToThreshold ==
    ValidInputs =>
        \A i \in Formulas :
            LET limit == Mul(params[i].base_salary, params[i].multiplier)
            IN  /\ Le(net_collections, limit) =>
                      /\ results[i].bonus_component = Whole(0)
                      /\ results[i].total = params[i].base_salary
                /\ \A k \in Samples :
                      Le(comparison_data[k].NetCollections, limit) =>
                          Column(comparison_data[k], i) = params[i].base_salary

\* collections exactly at the threshold of a formula with a positive rate
C4_Witness ==
    /\ ValidInputs
    /\ \E i \in Formulas :
          /\ net_collections = Mul(params[i].base_salary, params[i].multiplier)
          /\ Lt(Whole(0), net_collections)
          /\ Lt(Whole(0), params[i].bonus_percentage)
          /\ results[i].total = params[i].base_salary

\* the totals of formula i along the sweep never decrease, and the total at the
\* slider value lies between those of the samples below and above it
SweepNonDecreasing ==
    \A i \in Formulas :
        /\ \A k \in 1..(Len(comparison_data) - 1) :
              Le(Column(comparison_data[k], i), Column(comparison_data[k + 1], i))
        /\ \A k \in Samples :
              /\ Le(comparison_data[k].NetCollections, net_collections) =>
                    Le(Column(comparison_data[k], i), results[i].total)
              /\ Le(net_collections, comparison_data[k].NetCollections) =>
                    Le(results[i].total, Column(comparison_data[k], i))

\* with the parameters unchanged, moving the slider up never lowers a total
SliderNonDecreasing ==
    (params' = params /\ Le(net_collections, net_collections')) =>
        \A i \in Formulas : Le(results[i].total, results'[i].total)

\* C3: for fixed parameters the total of every formula is non-decreasing in
\* collections: c1 <= c2 implies total_i(c1) <= total_i(c2), for collections taken
\* at two slider values, at two samples of the sweep, or at one of each
C3_MonotoneInCollections == []SweepNonDecreasing /\ [][SliderNonDecreasing]_vars

\* a formula pays a bonus at the slider value and none at the lowest sample
C3_Witness ==
    \E i \in Formulas :
        /\ Lt(params[i].base_salary, results[i].total)
        /\ Column(comparison_data[1], i) = params[i].base_salary
        /\ Lt(slider_value, net_collections)

\* with the parameters unchanged and the slider above the threshold of formula i
\* before and after, the total changes by bonus_percentage_i / 100 of the move
SliderAffine ==
    params' = params =>
        \A i \in Formulas :
            LET limit == Mul(params[i].base_salary, params[i].multiplier)
            IN  (Lt(limit, net_collections) /\ Lt(limit, net_collections')) =>
                    Sub(results'[i].total, results[i].total) =
                        Div(Mul(Sub(net_collections', net_collections),
                                params[i].bonus_percentage), Whole(100))

C6_SweepMatchesCalculation ==
    /\ Len(comparison_data) = 100
    /\ comparison_data[1].NetCollections = Money(100000)
    /\ comparison_data[Len(comparison_data)].NetCollections = Money(3000000)
    /\ \A k \in 1..(Len(comparison_data) - 1) :
          Sub(comparison_data[k + 1].NetCollections, comparison_data[k].NetCollections) =
              Div(Sub(Money(3000000), Money(100000)), Whole(99))
    /\ \A k \in Samples :
          LET alone == calculate_compensation(params[1], params[2], params[3],
                                              comparison_data[k].NetCollections)
          IN  /\ comparison_data[k].Formula1 = alone[1].total
              /\ comparison_data[k].Formula2 = alone[2].total
              /\ comparison_data[k].Formula3 = alone[3].total

\* the three formulas differ in a parameter and their curves differ at the end
C6_Witness ==
    /\ Len(comparison_data) = 100
    /\ params[1] # params[2]
    /\ comparison_data[100].Formula1 # comparison_data[100].Formula2
    /\ comparison_data[100].Formula2 = comparison_data[100].Formula3
    /\ comparison_data[1].Formula1 = comparison_data[1].Formula2

\* parameter sets supplied in the other two slots
OtherParams ==
    {default_params,
     [base_salary |-> Money(0), multiplier |-> Frac(10, 10), bonus_percentage |-> Whole(100)],
     [base_salary |-> Money(300000), multiplier |-> Frac(10, 10), bonus_percentage |-> Whole(0)]}

\* the result of slot i does not depend on what the other two slots hold
SlotsIndependent ==
    \A q1, q2 \in OtherParams :
        /\ calculate_compensation(params[1], q1, q2, net_collections)[1] = results[1]
        /\ calculate_compensation(q1, params[2], q2, net_collections)[2] = results[2]
        /\ calculate_compensation(q1, q2, params[3], net_collections)[3] = results[3]

\* permuting the parameter sets across the slots permutes the results alike
SlotsPermute ==
    \A pi \in Permutations(Formulas) :
        LET permuted == calculate_compensation(params[pi[1]], params[pi[2]], params[pi[3]],
                                               net_collections)
        IN  \A j \in Formulas : permuted[j] = results[pi[j]]

\* an execution that leaves the collections and the parameters of slot i as
\* they were leaves the result of slot i as it was
OtherSlotsEdited ==
    \A i \in Formulas :
        (params'[i] = params[i] /\ net_collections' = net_collections) =>
            results'[i] = results[i]

\* C7: the three results of one call are mutually independent: the result of
\* slot i (base_component, bonus_component, total) is the same whatever parameter
\* sets are supplied in the other two slots, and permuting the parameter sets
\* across the slots permutes the results the same way
C7_SlotsIndependent == [](SlotsIndependent /\ SlotsPermute) /\ [][OtherSlotsEdited]_vars

\* the slots hold different parameters and give different results
C7_Witness ==
    /\ params[1] # params[2]
    /\ results[1] # results[2]
    /\ results[2] = results[3]
    /\ Lt(params[3].base_salary, results[3].total)

\* half the spacing of the samples: (3000000 - 100000) / 99 / 2
HalfSpacing == Div(Div(Sub(Money(3000000), Money(100000)), Whole(99)), Whole(2))

\* row k is the first row whose sample is nearest to the slider value
FirstNearest(k) ==
    LET distance(j) == RAbs(Sub(comparison_data[j].NetCollections, net_collections))
    IN  /\ \A j \in Samples : Le(distance(k), distance(j))
        /\ \A j \in 1..(k - 1) : Lt(distance(k), distance(j))

RMax(x, y) == IF Lt(x, y) THEN y ELSE x

\* C10: with base_salary >= 0, multiplier >= 1 and bonus_percentage <= 100 the
\* total of a formula never exceeds max(base_salary, net_collections), and
\* whenever a bonus accrues (net_collections above the threshold) the total is at
\* most net_collections; the same holds at every sample of the sweep
C10_TotalBoundedByCollections ==
    ValidInputs =>
        \A i \in Formulas :
            /\ Le(results[i].total, RMax(params[i].base_salary, net_collections))
            /\ Lt(Mul(params[i].base_salary, params[i].multiplier), net_collections) =>
                  Le(results[i].total, net_collections)
            /\ \A k \in Samples :
                  Le(Column(comparison_data[k], i),
                     RMax(params[i].base_salary, comparison_data[k].NetCollections))

\* a bonus accrues at a rate of 100% and the total stays below the collections
C10_Witness ==
    /\ ValidInputs
    /\ \E i \in Formulas :
          /\ params[i].bonus_percentage = Whole(100)
          /\ Lt(Mul(params[i].base_salary, params[i].multiplier), net_collections)
          /\ Lt(params[i].base_salary, results[i].total)
          /\ Lt(results[i].total, net_collections)

====
